---- MODULE Spec2Model ----
(***************************************************************************)
(* Model of pkg/skaffold/docker/image.go: RunBuild, RunPush, Digest and    *)
(* the status relay streamDockerMessages.                                  *)
(*                                                                         *)
(* One caller issues calls one after the other.  The part of a call up to  *)
(* the daemon request is one step; after a successful submission the relay *)
(* blocks on the response stream and takes one step per read, so that the  *)
(* daemon's events and the caller's cancellation interleave with it.       *)
(*                                                                         *)
(* Paths are sequences of one-character strings, so that strings.TrimPrefix*)
(* is computed on characters as the code computes it.                      *)
(***************************************************************************)
EXTENDS Naturals, Sequences, FiniteSets

\* ---------------------------------------------------------------- bounds
MaxPathLen == 4     \* longest dependency path, in characters
MaxCtxLen == 3      \* longest context directory, in characters
MaxDeps == 2        \* longest dependency list the parser returns
MaxEvents == 2      \* most progress events the daemon sends in one stream
MaxImages == 2      \* most images ImageList returns
MaxTags == 2        \* most repo tags on one image

\* ------------------------------------------------------------ strings
Sep == "/"
Chars == {Sep, "a"}

SeqsUpTo(S, n) == UNION {[1..k -> S] : k \in 0..n}

\* A well-formed, cleaned path: not empty, no "//", no trailing separator.
IsPath(s) ==
    /\ Len(s) >= 1
    /\ s[Len(s)] # Sep
    /\ \A i \in 1..(Len(s) - 1) : ~(s[i] = Sep /\ s[i + 1] = Sep)

IsAbs(s) == Len(s) >= 1 /\ s[1] = Sep

Paths == {s \in SeqsUpTo(Chars, MaxPathLen) : IsPath(s)}

\* BuildOptions.ContextDir: an absolute directory of one component.
ContextDirs ==
    {s \in SeqsUpTo(Chars, MaxCtxLen) :
        IsPath(s) /\ IsAbs(s) /\ \A i \in 2..Len(s) : s[i] # Sep}

\* What GetDockerfileDependencies can return.
DepLists == {l \in SeqsUpTo(Paths, MaxDeps) : TRUE}

\* BuildOptions.Dockerfile, relative to the context directory.
Dockerfile == <<"D">>

HasPrefix(s, prefix) ==
    /\ Len(s) >= Len(prefix)
    /\ SubSeq(s, 1, Len(prefix)) = prefix

\* strings.TrimPrefix: s without the leading prefix string, s itself when
\* it does not start with prefix.  A comparison of characters, not of path
\* components.
TrimPrefix(s, prefix) ==
    IF HasPrefix(s, prefix) THEN SubSeq(s, Len(prefix) + 1, Len(s)) ELSE s

\* ------------------------------------------------------------- errors
\* An error value: msg is the message errors.Wrap put around it ("" when
\* it is not wrapped), cause the innermost error.
Nil == [isErr |-> FALSE, msg |-> "", cause |-> ""]
NewError(c) == [isErr |-> TRUE, msg |-> "", cause |-> c]

\* errors.Wrap(err, message): nil stays nil.
Wrap(err, message) ==
    IF err.isErr THEN [isErr |-> TRUE, msg |-> message, cause |-> err.cause]
    ELSE Nil

\* ---------------------------------------------------------------- state
VARIABLES
    op,           \* the call in progress or last returned: "none", "RunBuild", "RunPush", "Digest"
    pc,           \* "idle", "streaming" (the relay blocks on a read), "returned"
    args,         \* the arguments and collaborator answers the call has used
    failed,       \* the steps of the call whose collaborator reported an error
    result,       \* the error the call returned (Nil before it returns)
    digest,       \* the string Digest returned
    daemonCalls,  \* the daemon requests the call has issued, in order
    tar,          \* what the call handed to archive.TarWithOptions
    archive,      \* buildCtx: "none", "open", "closed"
    respBody,     \* resp.Body / rc: "none", "open", "closed"
    buildBuf,     \* what the call has written to opts.BuildBuf / out
    seen,         \* the status events the relay has decoded, in order
    cancelled     \* ctx has been cancelled during the call

vars == <<op, pc, args, failed, result, digest, daemonCalls, tar, archive,
          respBody, buildBuf, seen, cancelled>>

NoArgs == [ContextDir |-> <<>>, deps |-> <<>>, ref |-> "", imageList |-> <<>>]
NoTar == [called |-> FALSE, IncludeFiles |-> <<>>, UID |-> 0, GID |-> 0]

Init ==
    /\ op = "none"
    /\ pc = "idle"
    /\ args = NoArgs
    /\ failed = {}
    /\ result = Nil
    /\ digest = ""
    /\ daemonCalls = <<>>
    /\ tar = NoTar
    /\ archive = "none"
    /\ respBody = "none"
    /\ buildBuf = <<>>
    /\ seen = <<>>
    /\ cancelled = FALSE

\* An answer of an external collaborator: its error when it fails.
Answer(fails, c) == IF fails THEN NewError(c) ELSE Nil

\* ------------------------------------------------------------- RunBuild
\* A RunBuild that goes on after GetAllAuthConfigs has failed.
AuthCheckSkipped(err) == Nil

\* image.go:51-54
AuthCheck(err) == Wrap(err, "read auth configs")

\* image.go:64-67
OpenCheck(err) == Wrap(err, "opening dockerfile")

\* image.go:69-74: every path loses the ContextDir prefix, the Dockerfile
\* is appended.
IncludeFiles(ContextDir, paths, dockerfile) ==
    Append([i \in 1..Len(paths) |-> TrimPrefix(paths[i], ContextDir)], dockerfile)

\* image.go:72-75: the options of archive.TarWithOptions.
TarOptions(ContextDir, paths, dockerfile) ==
    [called |-> TRUE,
     IncludeFiles |-> IncludeFiles(ContextDir, paths, dockerfile),
     UID |-> 0, GID |-> 0]

\* image.go:76-78
TarCheck(err) == Wrap(err, "tar workspace")

\* A RunBuild that sends the request a second time.
SubmitBuildRetried(calls) == Append(Append(calls, "ImageBuild"), "ImageBuild")

\* image.go:83: one ImageBuild request.
SubmitBuild(calls) == Append(calls, "ImageBuild")

\* image.go:84-86
BuildCheck(err) == Wrap(err, "docker build")

\* A call that drops the relay's error and reports success.
SwallowRelayError(relayErr) == Nil

\* image.go:88, 109: the relay's error is the call's result as it is.
streamDockerMessages(relayErr) == relayErr

\* The owner of the archive stream once ImageBuild has been given it is the
\* client; RunBuild holds no Close of buildCtx on any path.
ArchiveAfterSubmit(bodyClosed) == IF bodyClosed THEN "closed" ELSE "open"

\* RunBuild from its entry to the return of cli.ImageBuild (image.go:49-86).
\* The answers of the collaborators are the parameters; the value is the
\* state the call leaves, with ret = TRUE when RunBuild has returned.
RunBuildSubmit(ContextDir, deps, authErr, openErr, depsErr, tarErr, buildErr, bodyClosed) ==
    LET Failed(fails, step) == IF fails THEN {step} ELSE {}
        base == [ret |-> TRUE, err |-> Nil, failed |-> {}, args |-> NoArgs,
                 tar |-> NoTar, calls |-> <<>>, archive |-> "none",
                 respBody |-> "none"]
        \* 51: DefaultAuthHelper.GetAllAuthConfigs()
        s1 == [base EXCEPT !.failed = Failed(authErr, "auth")]
        auth == AuthCheck(Answer(authErr, "credential store"))
        \* 63-64: os.Open(dockerfilePath)
        s2 == [s1 EXCEPT !.args = [@ EXCEPT !.ContextDir = ContextDir],
                         !.failed = @ \cup Failed(openErr, "open")]
        open == OpenCheck(Answer(openErr, "no such file"))
        \* 68: err of GetDockerfileDependencies is assigned and overwritten
        \* at line 72 without being read; 69-75: the archive is asked for.
        paths == IF depsErr THEN <<>> ELSE deps
        s3 == [s2 EXCEPT !.args = [@ EXCEPT !.deps = paths],
                         !.failed = @ \cup Failed(depsErr, "deps")
                                      \cup Failed(tarErr, "tar"),
                         !.tar = TarOptions(ContextDir, paths, Dockerfile)]
        tarred == TarCheck(Answer(tarErr, "archive"))
        \* 80-83: cli.ImageBuild(ctx, body, imageBuildOpts)
        s4 == [s3 EXCEPT !.calls = SubmitBuild(@),
                         !.archive = ArchiveAfterSubmit(bodyClosed),
                         !.failed = @ \cup Failed(buildErr, "submit")]
        built == BuildCheck(Answer(buildErr, "daemon rejects"))
    IN  IF auth.isErr THEN [s1 EXCEPT !.err = auth]
        ELSE IF open.isErr THEN [s2 EXCEPT !.err = open]
        ELSE IF tarred.isErr THEN [s3 EXCEPT !.err = tarred]
        ELSE IF built.isErr THEN [s4 EXCEPT !.err = built]
        ELSE [s4 EXCEPT !.ret = FALSE, !.respBody = "open"]

\* The state a call leaves when it has returned or started to stream.
Enter(name, r) ==
    /\ op' = name
    /\ pc' = IF r.ret THEN "returned" ELSE "streaming"
    /\ args' = r.args
    /\ failed' = r.failed
    /\ result' = r.err
    /\ daemonCalls' = r.calls
    /\ tar' = r.tar
    /\ archive' = r.archive
    /\ respBody' = r.respBody
    /\ digest' = ""
    /\ buildBuf' = <<>>
    /\ seen' = <<>>
    /\ cancelled' = FALSE

RunBuild ==
    /\ pc = "idle"
    /\ \E ContextDir \in ContextDirs, deps \in DepLists :
       \E authErr, openErr, depsErr, tarErr, buildErr, bodyClosed \in BOOLEAN :
          Enter("RunBuild",
                RunBuildSubmit(ContextDir, deps, authErr, openErr, depsErr,
                               tarErr, buildErr, bodyClosed))

\* -------------------------------------------------------------- RunPush
Refs == {"m", "n"}

\* image.go:98-101
PushAuthCheck(err, ref) == Wrap(err, "getting auth config for " \o ref)

\* image.go:102-104: one ImagePush request.
SubmitPush(calls) == Append(calls, "ImagePush")

\* image.go:105-107
PushCheck(err) == Wrap(err, "pushing image to repository")

\* RunPush from its entry to the return of cli.ImagePush (image.go:97-107).
RunPushSubmit(ref, authErr, pushErr) ==
    LET Failed(fails, step) == IF fails THEN {step} ELSE {}
        base == [ret |-> TRUE, err |-> Nil, failed |-> {},
                 args |-> [NoArgs EXCEPT !.ref = ref],
                 tar |-> NoTar, calls |-> <<>>, archive |-> "none",
                 respBody |-> "none"]
        \* 98: encodedRegistryAuth(ctx, cli, DefaultAuthHelper, ref)
        s1 == [base EXCEPT !.failed = Failed(authErr, "auth")]
        auth == PushAuthCheck(Answer(authErr, "credential store"), ref)
        \* 102: cli.ImagePush(ctx, ref, ...)
        s2 == [s1 EXCEPT !.calls = SubmitPush(@),
                         !.failed = @ \cup Failed(pushErr, "submit")]
        pushed == PushCheck(Answer(pushErr, "daemon rejects"))
    IN  IF auth.isErr THEN [s1 EXCEPT !.err = auth]
        ELSE IF pushed.isErr THEN [s2 EXCEPT !.err = pushed]
        ELSE [s2 EXCEPT !.ret = FALSE, !.respBody = "open"]

RunPush ==
    /\ pc = "idle"
    /\ \E ref \in Refs : \E authErr, pushErr \in BOOLEAN :
          Enter("RunPush", RunPushSubmit(ref, authErr, pushErr))

\* ---------------------------------------------------------------- relay
\* The decoded messages of the daemon's stream.
ProgressTexts == {"p1", "p2"}
ErrorTexts == {"e1", "e2"}
Progress(t) == [kind |-> "progress", text |-> t]
ErrorEvent(t) == [kind |-> "error", text |-> t]

\* jsonmessage.JSONMessage.Display: an error message is returned as the
\* error, any other message is written to the sink.
Display(jm) == IF jm.kind = "error" THEN NewError(jm.text) ELSE Nil

\* image.go:87, 108: the deferred Close of the response stream runs when
\* the call returns.
Return(err) ==
    /\ pc' = "returned"
    /\ result' = streamDockerMessages(err)
    /\ respBody' = "closed"

\* The relay reads a progress message and writes it to the sink.
RelayProgress ==
    /\ pc = "streaming"
    /\ ~cancelled
    /\ Len(seen) < MaxEvents
    /\ \E t \in ProgressTexts :
          /\ Display(Progress(t)) = Nil
          /\ seen' = Append(seen, Progress(t))
          /\ buildBuf' = Append(buildBuf, t)
    /\ UNCHANGED <<op, pc, args, failed, result, digest, daemonCalls, tar,
                   archive, respBody, cancelled>>

\* The relay reads an error message: it stops and returns the error.
RelayError ==
    /\ pc = "streaming"
    /\ ~cancelled
    /\ \E t \in ErrorTexts :
          /\ seen' = Append(seen, ErrorEvent(t))
          /\ Return(Display(ErrorEvent(t)))
    /\ failed' = failed \cup {"stream"}
    /\ UNCHANGED <<op, args, digest, daemonCalls, tar, archive, buildBuf,
                   cancelled>>

\* The relay reads the end of the stream.
RelayEOF ==
    /\ pc = "streaming"
    /\ ~cancelled
    /\ Return(Nil)
    /\ UNCHANGED <<op, args, failed, digest, daemonCalls, tar, archive,
                   buildBuf, seen, cancelled>>

\* The caller cancels ctx while the relay blocks on a read.
Cancel ==
    /\ pc = "streaming"
    /\ ~cancelled
    /\ cancelled' = TRUE
    /\ UNCHANGED <<op, pc, args, failed, result, digest, daemonCalls, tar,
                   archive, respBody, buildBuf, seen>>

\* The connection is aborted: the relay's read fails with the context's error.
RelayCancelled ==
    /\ pc = "streaming"
    /\ cancelled
    /\ Return(NewError("context canceled"))
    /\ UNCHANGED <<op, args, failed, digest, daemonCalls, tar, archive,
                   buildBuf, seen, cancelled>>

\* --------------------------------------------------------------- Digest
ImageIDs == {"id1", "id2"}
RepoTagNames == {"m", "m:latest", "n:latest"}
Images == [ID : ImageIDs, RepoTags : SeqsUpTo(RepoTagNames, MaxTags)]
ImageLists == SeqsUpTo(Images, MaxImages)

\* A Digest that looks for the reference as it was given.
RefBare(ref) == ref

\* image.go:116
RefLatest(ref) == ref \o ":latest"

\* image.go:122-124
ListCheck(err) == Wrap(err, "getting image id")

\* image.go:126-130: the inner loop over one image's tags.
HasTag(image, refLatest) ==
    \E i \in 1..Len(image.RepoTags) : image.RepoTags[i] = refLatest

\* image.go:125-132: the first image with the tag, "" when there is none.
RECURSIVE ScanImages(_, _)
ScanImages(imageList, refLatest) ==
    IF imageList = <<>> THEN ""
    ELSE IF HasTag(Head(imageList), refLatest) THEN Head(imageList).ID
    ELSE ScanImages(Tail(imageList), refLatest)

Digest ==
    /\ pc = "idle"
    /\ \E ref \in Refs, imageList \in ImageLists, listErr \in BOOLEAN :
          LET err == ListCheck(Answer(listErr, "daemon unreachable")) IN
          /\ args' = [NoArgs EXCEPT !.ref = ref,
                                    !.imageList = IF listErr THEN <<>> ELSE imageList]
          /\ failed' = IF listErr THEN {"list"} ELSE {}
          /\ result' = err
          /\ digest' = IF err.isErr THEN "" ELSE ScanImages(imageList, RefLatest(ref))
    /\ op' = "Digest"
    /\ pc' = "returned"
    /\ daemonCalls' = <<"ImageList">>
    /\ UNCHANGED <<tar, archive, respBody, buildBuf, seen, cancelled>>

\* ------------------------------------------------------- specification
Next ==
    \/ RunBuild
    \/ RunPush
    \/ Digest
    \/ RelayProgress
    \/ RelayError
    \/ RelayEOF
    \/ Cancel
    \/ RelayCancelled

Spec == Init /\ [][Next]_vars
\* ---------------------------------------------------------------- claims
Range(q) == {q[i] : i \in 1..Len(q)}
Count(q, x) == Cardinality({i \in 1..Len(q) : q[i] = x})
Streams == op \in {"RunBuild", "RunPush"} /\ respBody # "none"

\* The texts of the progress events of a stream, in order.
RECURSIVE TextsOf(_)
TextsOf(q) ==
    IF q = <<>> THEN <<>>
    ELSE IF Head(q).kind = "progress" THEN <<Head(q).text>> \o TextsOf(Tail(q))
    ELSE TextsOf(Tail(q))

\* C1: once RunBuild or RunPush has submitted its request, the sink holds
\* the progress events read so far in arrival order; an error event is the
\* last event read, the call has returned and its result is that error; a
\* stream that ends without an error event, the context not cancelled,
\* makes the call return success.
C1_StreamErrorIsResult ==
    Streams =>
        /\ buildBuf = TextsOf(seen)
        /\ \A i \in 1..Len(seen) :
              seen[i].kind = "error" =>
                 /\ i = Len(seen)
                 /\ pc = "returned"
                 /\ result.isErr
                 /\ result.cause = seen[i].text
        /\ (/\ pc = "returned"
            /\ ~cancelled
            /\ \A i \in 1..Len(seen) : seen[i].kind # "error")
           => result = Nil

C1_Witness ==
    /\ op = "RunBuild"
    /\ pc = "returned"
    /\ seen = <<Progress("p2"), Progress("p1"), ErrorEvent("e2")>>
    /\ buildBuf = <<"p2", "p1">>
    /\ result.cause = "e2"

\* C2: when RunBuild or RunPush has returned, the build context archive
\* and the daemon's response stream are closed if they were acquired.
C2_ResourcesClosedOnReturn ==
    (pc = "returned" /\ op \in {"RunBuild", "RunPush"}) =>
        archive # "open" /\ respBody # "open"

\* C3: when GetDockerfileDependencies fails, RunBuild asks for no archive,
\* calls no ImageBuild and returns an error.
C3_DepsFailureAborts ==
    (op = "RunBuild" /\ "deps" \in failed) =>
        /\ ~tar.called
        /\ daemonCalls = <<>>
        /\ pc = "returned"
        /\ result.isErr

\* A dependency under the context directory, and its context-relative form.
Under(ContextDir, p) == HasPrefix(p, Append(ContextDir, Sep))
RelForm(ContextDir, p) == SubSeq(p, Len(ContextDir) + 2, Len(p))
Outside(ContextDir, p) == IsAbs(p) /\ p # ContextDir /\ ~Under(ContextDir, p)

\* C4: a dependency under the context directory reaches the archiver in
\* its context-relative form (with or without the separator the archiver
\* joins on), and a dependency outside the context directory makes RunBuild
\* return an error without calling ImageBuild.
C4_OutsidePathRejected ==
    (op = "RunBuild" /\ tar.called) =>
        \A i \in 1..Len(args.deps) :
           /\ Under(args.ContextDir, args.deps[i]) =>
                 tar.IncludeFiles[i] \in
                    {RelForm(args.ContextDir, args.deps[i]),
                     <<Sep>> \o RelForm(args.ContextDir, args.deps[i])}
           /\ Outside(args.ContextDir, args.deps[i]) =>
                 /\ daemonCalls = <<>>
                 /\ pc = "returned"
                 /\ result.isErr

\* C5: when ImageList succeeds, Digest returns no error and the ID of the
\* first listed image that has the tag ref:latest, "" when no image has it.
C5_DigestFirstExactMatch ==
    (op = "Digest" /\ pc = "returned" /\ "list" \notin failed) =>
        LET want == args.ref \o ":latest"
            match == {i \in 1..Len(args.imageList) :
                         want \in Range(args.imageList[i].RepoTags)}
        IN  /\ ~result.isErr
            /\ IF match = {} THEN digest = ""
               ELSE \E i \in match :
                       /\ \A j \in match : i <= j
                       /\ digest = args.imageList[i].ID

C5_Witness ==
    /\ op = "Digest"
    /\ args.ref = "m"
    /\ Len(args.imageList) = 2
    /\ args.imageList[1] = [ID |-> "id1", RepoTags |-> <<"m", "n:latest">>]
    /\ args.imageList[2] = [ID |-> "id2", RepoTags |-> <<"m", "m:latest">>]
    /\ digest = "id2"
    /\ result = Nil

\* The path a file of the archive has relative to the context directory
\* (a one-component directory): filepath.Rel for a dependency, and for an
\* include the path the archiver gets by joining it onto the directory.
RelToContext(ContextDir, p) ==
    IF ~IsAbs(p) THEN p
    ELSE IF p = ContextDir THEN <<".">>
    ELSE IF Under(ContextDir, p) THEN RelForm(ContextDir, p)
    ELSE <<".", ".">> \o p
Joined(include) ==
    IF include = <<>> THEN <<".">>
    ELSE IF IsAbs(include) THEN Tail(include)
    ELSE include

\* C6: the include set handed to the archiver is the Dockerfile and the
\* dependency paths relative to the context root, nothing else, with owner
\* 0/0.
C6_IncludeSetExact ==
    (op = "RunBuild" /\ tar.called) =>
        /\ {Joined(f) : f \in Range(tar.IncludeFiles)}
              = {Dockerfile} \cup
                {RelToContext(args.ContextDir, p) : p \in Range(args.deps)}
        /\ tar.UID = 0
        /\ tar.GID = 0

\* C7: a RunBuild whose auth configs or Dockerfile could not be read, and a
\* RunPush whose registry auth could not be resolved, has returned an error,
\* has issued no daemon request and has written nothing to the sink.
C7_EarlyFailureNeverReachesDaemon ==
    /\ (op = "RunBuild" /\ failed \cap {"auth", "open"} # {}) =>
          /\ pc = "returned"
          /\ result.isErr
          /\ "ImageBuild" \notin Range(daemonCalls)
          /\ buildBuf = <<>>
    /\ (op = "RunPush" /\ "auth" \in failed) =>
          /\ pc = "returned"
          /\ result.isErr
          /\ "ImagePush" \notin Range(daemonCalls)
          /\ buildBuf = <<>>

C7_Witness ==
    /\ op = "RunBuild"
    /\ pc = "returned"
    /\ failed = {"open"}
    /\ result = [isErr |-> TRUE, msg |-> "opening dockerfile", cause |-> "no such file"]
    /\ daemonCalls = <<>>

\* C8: a call issues at most one request of its own kind and none of the
\* other kind, exactly one when every step before the request succeeded; a
\* request that fails at submission is returned as an error and not sent
\* again.
C8_OneRequestNoRetry ==
    /\ op = "RunBuild" =>
          /\ Count(daemonCalls, "ImageBuild") <= 1
          /\ Count(daemonCalls, "ImagePush") = 0
          /\ failed \cap {"auth", "open", "deps", "tar"} = {}
                => Count(daemonCalls, "ImageBuild") = 1
    /\ op = "RunPush" =>
          /\ Count(daemonCalls, "ImagePush") <= 1
          /\ Count(daemonCalls, "ImageBuild") = 0
          /\ "auth" \notin failed => Count(daemonCalls, "ImagePush") = 1
    /\ (op \in {"RunBuild", "RunPush"} /\ "submit" \in failed) =>
          /\ pc = "returned"
          /\ result.isErr
          /\ Len(daemonCalls) = 1

C8_Witness ==
    /\ op = "RunBuild"
    /\ pc = "returned"
    /\ failed = {"submit"}
    /\ daemonCalls = <<"ImageBuild">>
    /\ result.msg = "docker build"

\* C9: a call cancelled while its stream was open has returned the
\* cancellation error, not success, and has released the response stream
\* and the build context archive.
C9_CancelledReleasesAll ==
    (pc = "returned" /\ cancelled) =>
        /\ result.isErr
        /\ result.cause = "context canceled"
        /\ respBody = "closed"
        /\ archive # "open"

\* C10: a call in which a step failed has returned an error that is
\* wrapped with a message naming a step.
C10_EveryErrorWrapped ==
    (pc = "returned" /\ failed # {}) =>
        /\ result.isErr
        /\ result.msg # ""
====
